---- MODULE Spec2Model ----
(***************************************************************************)
(* Task-management backend: registration and login (app/api/v1/auth.py,    *)
(* app/services/auth_service.py), the owner-scoped task service            *)
(* (app/services/task_service.py), the request schemas                     *)
(* (app/schemas/task.py, app/schemas/user.py) and the task endpoints       *)
(* (app/api/v1/tasks.py).                                                  *)
(*                                                                         *)
(* Three specifications share the variables:                               *)
(*   Spec          the task endpoints called with a resolved current user  *)
(*   SpecRegister  register requests of several workers, each a lookup     *)
(*                 followed by an insert+commit                            *)
(*   SpecToken     login, token expiry and the authorization gate in front *)
(*                 of the task endpoints                                   *)
(***************************************************************************)
EXTENDS Integers, Sequences, FiniteSets, TLC

VARIABLES
    users,   \* rows of table "users"
    tasks,   \* rows of table "tasks"
    clock,   \* the database/server clock (func.now(), utcnow), in minutes
    reqs,    \* register requests in flight, one per worker
    tokens,  \* bearer tokens handed out to clients
    last     \* the last endpoint call: its arguments and its outcome

vars == <<users, tasks, clock, reqs, tokens, last>>

----------------------------------------------------------------------------
(* Bounds *)

MaxTaskId == 2
MaxTime == 1
NumWorkers == 2
MaxTokens == 1
MaxGateTasks == 1
TickMinutes == 10
MaxMinutes == 40

----------------------------------------------------------------------------
(* Values *)

\* Python None, and a schema field the request body did not mention
\* (pydantic: not in model_fields_set).
NoneVal == "None"
Unset == "UNSET"

TaskStatus == {"pending", "in-progress", "completed"}
TaskPriority == {"low", "medium", "high"}

TaskFields == {"title", "description", "status", "priority", "due_date"}

\* The two registered users the task endpoints are called by.
UserIds == {1, 2}

NoTask == [id |-> 0, title |-> NoneVal, description |-> NoneVal, status |-> NoneVal,
           priority |-> NoneVal, due_date |-> NoneVal, user_id |-> 0,
           created_at |-> 0, updated_at |-> 0]

Payload(t, d, s, p, due) ==
    [title |-> t, description |-> d, status |-> s, priority |-> p, due_date |-> due]

\* Request bodies of POST /tasks.
CreatePayloads ==
    { Payload("A", Unset, Unset, Unset, Unset),
      Payload("", "d", "completed", "low", "d1"),
      Payload(Unset, Unset, "pending", Unset, Unset),
      Payload("A", Unset, "bogus", Unset, Unset) }

\* Request bodies of PUT /tasks/{task_id}.
UpdatePayloads ==
    { Payload(Unset, Unset, Unset, Unset, Unset),
      Payload(Unset, Unset, "completed", Unset, Unset),
      Payload(NoneVal, Unset, NoneVal, Unset, Unset),
      Payload(Unset, Unset, Unset, "urgent", Unset) }

StatusFilters == {NoneVal, "pending", "bogus"}
PriorityFilters == {"", "low"}

TaskIds == 1..MaxTaskId

----------------------------------------------------------------------------
(* Request schemas: app/schemas/task.py *)

\* TaskBase/TaskCreate: title is a required str (any str, "" included);
\* status and priority are enum members when given; description, due_date optional.
TaskCreate_valid(p) ==
    /\ p.title \notin {Unset, NoneVal}
    /\ p.status \in TaskStatus \cup {Unset}
    /\ p.priority \in TaskPriority \cup {Unset}

\* The validated TaskCreate object: defaults filled in for the unset fields.
TaskCreate_model(p) ==
    [title |-> p.title,
     description |-> IF p.description = Unset THEN NoneVal ELSE p.description,
     status |-> IF p.status = Unset THEN "pending" ELSE p.status,
     priority |-> IF p.priority = Unset THEN "medium" ELSE p.priority,
     due_date |-> IF p.due_date = Unset THEN NoneVal ELSE p.due_date]

\* TaskUpdate: every field Optional; an enum field is a member or None.
TaskUpdate_valid(p) ==
    /\ p.status \in TaskStatus \cup {Unset, NoneVal}
    /\ p.priority \in TaskPriority \cup {Unset, NoneVal}

----------------------------------------------------------------------------
(* TaskService: app/services/task_service.py *)

\* A service call's result: what it returns (or raises) and the table after it.
Result(kind, rows, ts) == [kind |-> kind, rows |-> rows, tasks |-> ts]

MaxCreated(S) == CHOOSE m \in {t.created_at : t \in S} : \A t \in S : t.created_at <= m

MinCreated(S) == CHOOSE m \in {t.created_at : t \in S} : \A t \in S : m <= t.created_at

\* The query with .asc() in place of .desc().
RECURSIVE order_by_created_asc(_, _)
order_by_created_asc(S, tie) ==
    IF S = {} THEN <<>>
    ELSE LET oldest == {t \in S : t.created_at = MinCreated(S)}
             first == CHOOSE t \in oldest :
                        \A o \in oldest : IF tie = "asc" THEN t.id <= o.id ELSE t.id >= o.id
         IN <<first>> \o order_by_created_asc(S \ {first}, tie)

\* ORDER BY created_at DESC. Rows with equal created_at come in an order the
\* database chooses; tie says which (ascending or descending id).
RECURSIVE order_by_created_desc(_, _)
order_by_created_desc(S, tie) ==
    IF S = {} THEN <<>>
    ELSE LET newest == {t \in S : t.created_at = MaxCreated(S)}
             first == CHOOSE t \in newest :
                        \A o \in newest : IF tie = "asc" THEN t.id <= o.id ELSE t.id >= o.id
         IN <<first>> \o order_by_created_desc(S \ {first}, tie)

get_user_tasks(ts, user_id, status_filter, priority_filter, tie) ==
    LET q0 == {t \in ts : t.user_id = user_id}
        q1 == IF status_filter \notin {NoneVal, ""}
              THEN {t \in q0 : t.status = status_filter} ELSE q0
        q2 == IF priority_filter \notin {NoneVal, ""}
              THEN {t \in q1 : t.priority = priority_filter} ELSE q1
    IN order_by_created_desc(q2, tie)

\* The lookup without the Task.user_id == user_id condition.
get_task_by_id_any_owner(ts, task_id, user_id) ==
    LET q == {t \in ts : t.id = task_id}
    IN IF q = {} THEN NoTask ELSE CHOOSE t \in q : TRUE

\* .filter(Task.id == task_id, Task.user_id == user_id).first()
get_task_by_id(ts, task_id, user_id) ==
    LET q == {t \in ts : t.id = task_id /\ t.user_id = user_id}
    IN IF q = {} THEN NoTask ELSE CHOOSE t \in q : TRUE

\* The primary key the database gives a new row: above every id in the table
\* (SQLite: max(rowid)+1; a sequence: its next value).
NewIds(ts) == {i \in TaskIds : \A t \in ts : i > t.id}

\* The row created with a fixed owner instead of the caller's user_id.
create_task_fixed_owner(ts, task_data, user_id, id, now) ==
    LET db_task == [id |-> id,
                    title |-> task_data.title,
                    description |-> task_data.description,
                    status |-> task_data.status,
                    priority |-> task_data.priority,
                    due_date |-> task_data.due_date,
                    user_id |-> 1,
                    created_at |-> now,
                    updated_at |-> now]
    IN Result("Task", <<db_task>>, ts \cup {db_task})

create_task(ts, task_data, user_id, id, now) ==
    LET db_task == [id |-> id,
                    title |-> task_data.title,
                    description |-> task_data.description,
                    status |-> task_data.status,
                    priority |-> task_data.priority,
                    due_date |-> task_data.due_date,
                    user_id |-> user_id,
                    created_at |-> now,
                    updated_at |-> now]
    IN Result("Task", <<db_task>>, ts \cup {db_task})

\* The unbound name placed after the commit instead of before model_dump: the
\* supplied status is written and committed, then the call raises.
update_task_error_after_commit(ts, task_id, task_data, user_id) ==
    LET db_task == get_task_by_id(ts, task_id, user_id)
        written == [db_task EXCEPT !.status = IF task_data.status = Unset
                                              THEN @ ELSE task_data.status]
    IN IF db_task = NoTask
       THEN Result("None", <<>>, ts)
       ELSE Result("NameError", <<>>, (ts \ {db_task}) \cup {written})

\* Line 103 of task_service.py is the bare name `s`, which is bound nowhere:
\* once the task is found the call raises NameError before model_dump, setattr
\* and commit are reached, so the row is left as it was.
update_task(ts, task_id, task_data, user_id) ==
    LET db_task == get_task_by_id(ts, task_id, user_id)
    IN IF db_task = NoTask
       THEN Result("None", <<>>, ts)
       ELSE Result("NameError", <<>>, ts)

\* delete without self.db.delete(db_task): the row stays.
delete_task_row_kept(ts, task_id, user_id) ==
    LET db_task == get_task_by_id(ts, task_id, user_id)
    IN IF db_task = NoTask
       THEN Result("False", <<>>, ts)
       ELSE Result("True", <<>>, ts)

delete_task(ts, task_id, user_id) ==
    LET db_task == get_task_by_id(ts, task_id, user_id)
    IN IF db_task = NoTask
       THEN Result("False", <<>>, ts)
       ELSE Result("True", <<>>, ts \ {db_task})

----------------------------------------------------------------------------
(* Task endpoints: app/api/v1/tasks.py, called with the resolved current_user *)

\* No bearer token: the call was made with an already resolved current_user.
NoToken == [sub |-> "", exp |-> 0, sig |-> "none"]

Call(op, user, task_id, payload, sf, pf, kind, status, rows) ==
    [op |-> op, user |-> user, task_id |-> task_id, payload |-> payload,
     status_filter |-> sf, priority_filter |-> pf,
     kind |-> kind, status |-> status, rows |-> rows, token |-> NoToken]

WithToken(call, tok) == [call EXCEPT !.token = tok]

NoPayload == Payload(Unset, Unset, Unset, Unset, Unset)

NoCall == Call("none", 0, 0, NoPayload, NoneVal, NoneVal, "none", 0, <<>>)

api_get_tasks(u, sf, pf, tie) ==
    LET rows == get_user_tasks(tasks, u, sf, pf, tie)
    IN /\ last' = Call("get_tasks", u, 0, NoPayload, sf, pf, "List", 200, rows)
       /\ UNCHANGED tasks

api_get_task(tok, u, task_id) ==
    LET task == get_task_by_id(tasks, task_id, u)
    IN /\ last' = WithToken(
                    IF task = NoTask
                    THEN Call("get_task", u, task_id, NoPayload, NoneVal, NoneVal, "None", 404, <<>>)
                    ELSE Call("get_task", u, task_id, NoPayload, NoneVal, NoneVal, "Task", 200, <<task>>),
                    tok)
       /\ UNCHANGED tasks

api_create_task(tok, u, p) ==
    IF ~TaskCreate_valid(p)
    THEN /\ last' = WithToken(Call("create_task", u, 0, p, NoneVal, NoneVal,
                                   "ValidationError", 422, <<>>), tok)
         /\ UNCHANGED tasks
    ELSE \E id \in NewIds(tasks) :
           LET r == create_task(tasks, TaskCreate_model(p), u, id, clock)
           IN /\ tasks' = r.tasks
              /\ last' = WithToken(Call("create_task", u, id, p, NoneVal, NoneVal,
                                        r.kind, 201, r.rows), tok)

api_update_task(u, task_id, p) ==
    IF ~TaskUpdate_valid(p)
    THEN /\ last' = Call("update_task", u, task_id, p, NoneVal, NoneVal, "ValidationError", 422, <<>>)
         /\ UNCHANGED tasks
    ELSE LET r == update_task(tasks, task_id, p, u)
         IN /\ tasks' = r.tasks
            /\ last' = Call("update_task", u, task_id, p, NoneVal, NoneVal, r.kind,
                            IF r.kind = "None" THEN 404 ELSE IF r.kind = "Task" THEN 200 ELSE 500,
                            r.rows)

api_delete_task(tok, u, task_id) ==
    LET r == delete_task(tasks, task_id, u)
    IN /\ tasks' = r.tasks
       /\ last' = WithToken(Call("delete_task", u, task_id, NoPayload, NoneVal, NoneVal, r.kind,
                                 IF r.kind = "True" THEN 204 ELSE 404, <<>>), tok)

----------------------------------------------------------------------------
(* Specification of the task endpoints *)

Tick(step, max) ==
    /\ clock + step <= max
    /\ clock' = clock + step
    /\ UNCHANGED <<users, tasks, reqs, tokens, last>>

GetTasks ==
    /\ \E u \in UserIds, sf \in StatusFilters, pf \in PriorityFilters, tie \in {"asc", "desc"} :
         api_get_tasks(u, sf, pf, tie)
    /\ UNCHANGED <<users, clock, reqs, tokens>>

GetTask ==
    /\ \E u \in UserIds, i \in TaskIds : api_get_task(NoToken, u, i)
    /\ UNCHANGED <<users, clock, reqs, tokens>>

CreateTask ==
    /\ \E u \in UserIds, p \in CreatePayloads : api_create_task(NoToken, u, p)
    /\ UNCHANGED <<users, clock, reqs, tokens>>

UpdateTask ==
    /\ \E u \in UserIds, i \in TaskIds, p \in UpdatePayloads : api_update_task(u, i, p)
    /\ UNCHANGED <<users, clock, reqs, tokens>>

DeleteTask ==
    /\ \E u \in UserIds, i \in TaskIds : api_delete_task(NoToken, u, i)
    /\ UNCHANGED <<users, clock, reqs, tokens>>

TickTask == Tick(1, MaxTime)

UserRow(id, email, username, digest) ==
    [id |-> id, email |-> email, username |-> username, hashed_password |-> digest]

Req(pc, email, username, password, outcome) ==
    [pc |-> pc, email |-> email, username |-> username, password |-> password,
     outcome |-> outcome]

IdleReq == Req("idle", NoneVal, NoneVal, NoneVal, NoneVal)

RegisteredUsers ==
    { UserRow(1, "a@x.io", "ab", <<"bcrypt", "s1", "secret1">>),
      UserRow(2, "b@x.io", "ab", <<"bcrypt", "s2", "secret2">>) }

Init ==
    /\ users = RegisteredUsers
    /\ tasks = {}
    /\ clock = 0
    /\ reqs = [w \in 1..NumWorkers |-> IdleReq]
    /\ tokens = {}
    /\ last = NoCall

Next ==
    \/ GetTasks
    \/ GetTask
    \/ CreateTask
    \/ UpdateTask
    \/ DeleteTask
    \/ TickTask

Spec == Init /\ [][Next]_vars

----------------------------------------------------------------------------
(* Registration: app/schemas/user.py, app/services/auth_service.py,        *)
(* app/api/v1/auth.py                                                      *)

Emails == {"a@x.io", "b@x.io"}
Usernames == {"a", "ab"}
Passwords == {"12345", "secret1"}
Salts == {"s1", "s2"}

\* UserCreate.validate_password and UserCreate.validate_username.
UserCreate_valid(username, password) ==
    /\ ~(Len(password) < 6)
    /\ ~(Len(password) > 72)
    /\ ~(Len(username) < 2)
    /\ ~(Len(username) > 50)

\* A salted one-way digest: the salt is drawn anew by every call.
get_password_hash(password, salt) == <<"bcrypt", salt, password>>

verify_password(password, digest) == get_password_hash(password, digest[2]) = digest

\* .filter(User.email == email).first(); NoUser when there is no such row.
NoUser == UserRow(0, NoneVal, NoneVal, <<"bcrypt", "", "">>)

get_user_by_email(us, email) ==
    LET q == {u \in us : u.email = email}
    IN IF q = {} THEN NoUser ELSE CHOOSE u \in q : TRUE

\* A table without the unique index on users.email.
UniqueViolation_none(us, email) == FALSE

\* Column(String, unique=True) on users.email: the commit of a second row with
\* the same email fails.
UniqueViolation(us, email) == \E u \in us : u.email = email

NextUserId(us) == Cardinality(us) + 1

\* create_user: hash, add, commit, refresh. The commit raises IntegrityError
\* when the unique index rejects the row; nothing is inserted then.
create_user(us, email, username, password, salt) ==
    LET db_user == UserRow(NextUserId(us), email, username, get_password_hash(password, salt))
    IN IF UniqueViolation(us, email)
       THEN [kind |-> "IntegrityError", users |-> us]
       ELSE [kind |-> "User", users |-> us \cup {db_user}]

\* POST /auth/register up to the pre-check: body validation, then
\* get_user_by_email; a found row ends the request with HTTP 400.
RegisterCheck(w) ==
    /\ reqs[w].pc = "idle"
    /\ \E email \in Emails, username \in Usernames, password \in Passwords :
         reqs' = [reqs EXCEPT ![w] =
                    IF ~UserCreate_valid(username, password)
                    THEN Req("done", email, NoneVal, NoneVal, "ValidationError")
                    ELSE IF get_user_by_email(users, email) # NoUser
                    THEN Req("done", email, NoneVal, NoneVal, "DuplicateEmail")
                    ELSE Req("checked", email, username, password, NoneVal)]
    /\ UNCHANGED <<users, tasks, clock, tokens, last>>

\* The rest of the handler: create_user. Nothing in register or create_user
\* catches the commit's IntegrityError; it leaves the handler as an unhandled
\* exception (HTTP 500).
RegisterCreate(w) ==
    /\ reqs[w].pc = "checked"
    /\ \E salt \in Salts :
         LET r == create_user(users, reqs[w].email, reqs[w].username, reqs[w].password, salt)
         IN /\ users' = r.users
            /\ reqs' = [reqs EXCEPT ![w] =
                          Req("done", reqs[w].email, NoneVal, NoneVal,
                              IF r.kind = "User" THEN "Created" ELSE r.kind)]
    /\ UNCHANGED <<tasks, clock, tokens, last>>

\* The response is sent; the worker takes the next request.
RegisterReturn(w) ==
    /\ reqs[w].pc = "done"
    /\ reqs' = [reqs EXCEPT ![w] = IdleReq]
    /\ UNCHANGED <<users, tasks, clock, tokens, last>>

Workers == 1..NumWorkers

InitRegister ==
    /\ users = {}
    /\ tasks = {}
    /\ clock = 0
    /\ reqs = [w \in Workers |-> IdleReq]
    /\ tokens = {}
    /\ last = NoCall

NextRegister ==
    \/ \E w \in Workers : RegisterCheck(w)
    \/ \E w \in Workers : RegisterCreate(w)
    \/ \E w \in Workers : RegisterReturn(w)

SpecRegister == InitRegister /\ [][NextRegister]_vars

----------------------------------------------------------------------------
(* Login, bearer tokens and the authorization gate                         *)
(* (app/api/v1/auth.py, app/services/auth_service.py, app/core/config.py;  *)
(* create_access_token and get_current_user are imported from              *)
(* app/core/security.py and app/api/dependencies.py)                       *)

ACCESS_TOKEN_EXPIRE_MINUTES == 30

\* str(user_id) and int(sub).
IdStrings == {ToString(i) : i \in 0..Cardinality(UserIds) + 1}

IntOf(str) ==
    IF str \in IdStrings
    THEN CHOOSE i \in 0..Cardinality(UserIds) + 1 : ToString(i) = str
    ELSE 0

\* create_access_token(data): the claims of data plus exp = now + the configured
\* lifetime, signed with SECRET_KEY.
create_access_token(data, now) ==
    [sub |-> data.sub, exp |-> now + ACCESS_TOKEN_EXPIRE_MINUTES, sig |-> "SECRET_KEY"]

\* A token issued with another subject than the user it is issued for.
create_token_wrong_sub(user_id, now) ==
    create_access_token([sub |-> ToString(3 - user_id)], now)

\* AuthService.create_token
create_token(user_id, now) == create_access_token([sub |-> ToString(user_id)], now)

\* Decoding a token: the subject's user id, or 0 (invalid) when the signature is
\* not the server's, the subject is no user id, or now >= exp.
verify_token(tok, now) ==
    IF tok.sig # "SECRET_KEY" \/ tok.sub \notin IdStrings \/ now >= tok.exp
    THEN 0
    ELSE IntOf(tok.sub)

\* get_current_user: verify the token, then load the user; 0 when either fails.
get_current_user(tok, us, now) ==
    LET user_id == verify_token(tok, now)
    IN IF user_id # 0 /\ \E u \in us : u.id = user_id THEN user_id ELSE 0

authenticate_user(us, email, password) ==
    LET user == get_user_by_email(us, email)
    IN IF user = NoUser THEN NoUser
       ELSE IF ~verify_password(password, user.hashed_password) THEN NoUser
       ELSE user

\* Tokens a client may present that the server never issued.
ForgedTokens ==
    { [sub |-> "1", exp |-> MaxMinutes + ACCESS_TOKEN_EXPIRE_MINUTES, sig |-> "forged"],
      [sub |-> "admin", exp |-> MaxMinutes + ACCESS_TOKEN_EXPIRE_MINUTES, sig |-> "SECRET_KEY"] }

Rejected(op, tok, task_id, p) ==
    WithToken(Call(op, 0, task_id, p, NoneVal, NoneVal, "AuthenticationFailure", 401, <<>>), tok)

\* POST /auth/login
Login ==
    /\ \E email \in Emails, password \in Passwords \cup {"secret2"} :
         LET user == authenticate_user(users, email, password)
         IN IF user = NoUser
            THEN /\ last' = Call("login", 0, 0, NoPayload, NoneVal, NoneVal,
                                 "AuthenticationFailure", 401, <<>>)
                 /\ UNCHANGED tokens
            ELSE LET tok == create_token(user.id, clock)
                 IN /\ Cardinality(tokens \cup {tok}) <= MaxTokens
                    /\ tokens' = tokens \cup {tok}
                    /\ last' = WithToken(Call("login", user.id, 0, NoPayload, NoneVal, NoneVal,
                                              "Token", 200, <<>>), tok)
    /\ UNCHANGED <<users, tasks, clock, reqs>>

\* GET /tasks/{task_id} with a bearer token
GatedGetTask ==
    /\ \E tok \in tokens \cup ForgedTokens, i \in TaskIds :
         LET u == get_current_user(tok, users, clock)
         IN IF u = 0
            THEN last' = Rejected("get_task", tok, i, NoPayload) /\ UNCHANGED tasks
            ELSE api_get_task(tok, u, i)
    /\ UNCHANGED <<users, clock, reqs, tokens>>

\* POST /tasks with a bearer token
GatedCreateTask ==
    /\ Cardinality(tasks) < MaxGateTasks
    /\ \E tok \in tokens \cup ForgedTokens :
         LET u == get_current_user(tok, users, clock)
             p == Payload("A", Unset, Unset, Unset, Unset)
         IN IF u = 0
            THEN last' = Rejected("create_task", tok, 0, p) /\ UNCHANGED tasks
            ELSE api_create_task(tok, u, p)
    /\ UNCHANGED <<users, clock, reqs, tokens>>

\* DELETE /tasks/{task_id} with a bearer token
GatedDeleteTask ==
    /\ \E tok \in tokens \cup ForgedTokens, i \in TaskIds :
         LET u == get_current_user(tok, users, clock)
         IN IF u = 0
            THEN last' = Rejected("delete_task", tok, i, NoPayload) /\ UNCHANGED tasks
            ELSE api_delete_task(tok, u, i)
    /\ UNCHANGED <<users, clock, reqs, tokens>>

TickToken == Tick(TickMinutes, MaxMinutes)

InitToken == Init

NextToken ==
    \/ Login
    \/ GatedGetTask
    \/ GatedCreateTask
    \/ GatedDeleteTask
    \/ TickToken

SpecToken == InitToken /\ [][NextToken]_vars

----------------------------------------------------------------------------
(* Properties of the task endpoints (checked under Spec) *)

Owned(ts, task_id, user_id) == \E t \in ts : t.id = task_id /\ t.user_id = user_id

RowSet(rows) == {rows[i] : i \in 1..Len(rows)}

\* C1. Ownership isolation: a call made with one user's identity returns only
\* tasks owned by that user, and leaves every task owned by another user in the
\* table exactly as it was, also when it names the other user's task id.
C1_OwnershipIsolation ==
    [][ /\ \A r \in RowSet(last'.rows) : r.user_id = last'.user
        /\ \A t \in tasks : t.user_id # last'.user => t \in tasks' ]_vars

\* A delete, update or get by one user was given the exact id of a task that
\* another user owns, and that task is still in the table.
C1_Witness ==
    /\ last.op \in {"delete_task", "update_task", "get_task"}
    /\ \E t \in tasks : t.id = last.task_id /\ t.user_id # last.user
    /\ last.kind \in {"False", "None"}

\* What update(T, partial_fields, O) is to return: the task with the supplied
\* fields replaced and the others as they were.
MergePatch(t, p) ==
    [t EXCEPT !.title = IF p.title = Unset THEN @ ELSE p.title,
              !.description = IF p.description = Unset THEN @ ELSE p.description,
              !.status = IF p.status = Unset THEN @ ELSE p.status,
              !.priority = IF p.priority = Unset THEN @ ELSE p.priority,
              !.due_date = IF p.due_date = Unset THEN @ ELSE p.due_date]

SameFields(a, b) == \A f \in TaskFields : a[f] = b[f]

\* C2. Merge-patch update: an update of a task by its owner succeeds and returns
\* the task with exactly the supplied fields changed; the unsupplied fields keep
\* their prior values.
C2_MergePatchUpdate ==
    [][ (/\ last' # last
         /\ last'.op = "update_task"
         /\ TaskUpdate_valid(last'.payload)
         /\ Owned(tasks, last'.task_id, last'.user))
        => LET t == get_task_by_id(tasks, last'.task_id, last'.user)
           IN /\ last'.kind = "Task"
              /\ Len(last'.rows) = 1
              /\ SameFields(last'.rows[1], MergePatch(t, last'.payload))
              /\ last'.rows[1] \in tasks' ]_vars

\* C5. get/delete visibility: get(T, O) returns a task exactly when a task with
\* id T owned by O is in the table; right after delete(T, O) returned true,
\* get(T, O) returns none and another delete(T, O) returns false; and a get of an
\* absent task and of another user's task give the same answer.
C5_GetDeleteVisibility ==
    /\ \A u \in UserIds, i \in TaskIds :
         (get_task_by_id(tasks, i, u) # NoTask) <=> Owned(tasks, i, u)
    /\ last.op = "get_task" =>
         IF Owned(tasks, last.task_id, last.user)
         THEN /\ last.kind = "Task"
              /\ last.rows = <<get_task_by_id(tasks, last.task_id, last.user)>>
         ELSE last = Call("get_task", last.user, last.task_id, NoPayload,
                          NoneVal, NoneVal, "None", 404, <<>>)
    /\ (last.op = "delete_task" /\ last.kind = "True") =>
         /\ get_task_by_id(tasks, last.task_id, last.user) = NoTask
         /\ ~\E t \in tasks : t.id = last.task_id
         /\ delete_task(tasks, last.task_id, last.user).kind = "False"

\* A delete by the owner returned true while other tasks stay in the table.
C5_Witness ==
    /\ last.op = "delete_task"
    /\ last.kind = "True"
    /\ tasks # {}

Matches(t, user_id, sf, pf) ==
    /\ t.user_id = user_id
    /\ (sf \notin {NoneVal, ""} => t.status = sf)
    /\ (pf \notin {NoneVal, ""} => t.priority = pf)

\* C6. list result: list(owner, status_filter, priority_filter) returns exactly
\* the owner's tasks that match the non-empty filters, each once, newest created
\* first; an absent or empty filter restricts nothing and an unrecognized filter
\* value gives the empty list, not an error.
C6_ListResult ==
    last.op = "get_tasks" =>
        LET rows == last.rows
            expected == {t \in tasks :
                           Matches(t, last.user, last.status_filter, last.priority_filter)}
        IN /\ last.kind = "List"
           /\ RowSet(rows) = expected
           /\ Len(rows) = Cardinality(expected)
           /\ \A i, j \in 1..Len(rows) : i < j => rows[i].created_at >= rows[j].created_at
           /\ last.status_filter \notin TaskStatus \cup {NoneVal, ""} => rows = <<>>

\* A list filtered by status "pending" returned two tasks created at different
\* times, the newer one first.
C6_Witness ==
    /\ last.op = "get_tasks"
    /\ last.status_filter = "pending"
    /\ Len(last.rows) = 2
    /\ last.rows[1].created_at > last.rows[2].created_at

\* C7. Update timestamp refresh: an update of a task by its owner, also one with
\* an empty payload, leaves the task with updated_at equal to the instant of the
\* update and created_at as before.
C7_UpdateTimestampRefresh ==
    [][ (/\ last' # last
         /\ last'.op = "update_task"
         /\ TaskUpdate_valid(last'.payload)
         /\ Owned(tasks, last'.task_id, last'.user))
        => LET old == get_task_by_id(tasks, last'.task_id, last'.user)
               new == get_task_by_id(tasks', last'.task_id, last'.user)
           IN /\ new # NoTask
              /\ new.updated_at = clock
              /\ new.created_at = old.created_at ]_vars

\* C9. Task well-formedness: every stored task has a non-empty title, a status
\* in TaskStatus and a priority in TaskPriority; a rejected payload leaves the
\* table as it was; a create without status and priority stores pending, medium.
C9_TaskWellFormed ==
    /\ \A t \in tasks :
         /\ t.title \notin {"", NoneVal, Unset}
         /\ t.status \in TaskStatus
         /\ t.priority \in TaskPriority
    /\ (last.op = "create_task" /\ last.kind = "Task"
          /\ last.payload.status = Unset /\ last.payload.priority = Unset)
         => /\ last.rows[1].status = "pending"
            /\ last.rows[1].priority = "medium"

TaskIdsOf(ts) == {t.id : t \in ts}

\* C10. Owner immutability: a created task is owned by the caller; while a task
\* is in the table its owner and its id stay the same (a task leaves the table
\* only by a delete); every stored task has one owner and its own id.
C10_OwnerImmutable ==
    [][ /\ \A t \in tasks, n \in tasks' : n.id = t.id => n.user_id = t.user_id
        /\ (TaskIdsOf(tasks) \ TaskIdsOf(tasks') # {}) => last'.op = "delete_task"
        /\ (last'.op = "create_task" /\ last'.kind = "Task" /\ tasks' # tasks)
             => /\ \A n \in tasks' \ tasks : n.user_id = last'.user /\ n.id = last'.task_id
                /\ last'.rows[1].user_id = last'.user
        /\ \A n \in tasks' : n.user_id \in UserIds
        /\ \A a, b \in tasks' : a.id = b.id => a = b ]_vars

\* User 2 created a task while user 1 already owned one, and both are stored.
C10_Witness ==
    /\ last.op = "create_task"
    /\ last.kind = "Task"
    /\ last.user = 2
    /\ \E t \in tasks : t.id = last.task_id /\ t.user_id = 2
    /\ \E t \in tasks : t.user_id = 1

----------------------------------------------------------------------------
(* Properties of registration (checked under SpecRegister) *)

UsersWithEmail(us, email) == {u \in us : u.email = email}

\* C3. Duplicate registration: a register request for an email that is already
\* stored, or that another request stores between this request's pre-check and
\* its commit, ends with DuplicateEmail; no request ends with an unhandled
\* storage failure.
C3_DuplicateSurfaced ==
    \A w \in Workers :
        reqs[w].pc = "done" =>
            /\ reqs[w].outcome \in {"Created", "DuplicateEmail", "ValidationError"}
            /\ reqs[w].outcome = "DuplicateEmail" =>
                 UsersWithEmail(users, reqs[w].email) # {}

\* C4. Email uniqueness: no two user rows have the same email, a register
\* request that does not end with Created adds no row, and a row is added only
\* by a request that ends with Created.
C4_EmailUnique ==
    [][ /\ \A a, b \in users' : a.email = b.email => a = b
        /\ \A w \in Workers :
             (reqs'[w] # reqs[w] /\ reqs'[w].pc = "done" /\ reqs'[w].outcome # "Created")
                => users' = users
        /\ users' # users =>
             \E w \in Workers :
                 /\ reqs[w].pc = "checked"
                 /\ reqs'[w].pc = "done"
                 /\ reqs'[w].outcome = "Created"
                 /\ UsersWithEmail(users, reqs[w].email) = {}
                 /\ Cardinality(UsersWithEmail(users', reqs[w].email)) = 1
                 /\ Cardinality(users') = Cardinality(users) + 1 ]_vars

\* Two requests for one email both passed the pre-check; one created the user
\* and the other's commit was rejected, leaving one row with that email.
C4_Witness ==
    \E v, w \in Workers :
        /\ v # w
        /\ reqs[v].pc = "done" /\ reqs[v].outcome = "Created"
        /\ reqs[w].pc = "done" /\ reqs[w].outcome = "IntegrityError"
        /\ reqs[v].email = reqs[w].email
        /\ Cardinality(UsersWithEmail(users, reqs[w].email)) = 1

----------------------------------------------------------------------------
(* Properties of tokens and the gate (checked under SpecToken) *)

\* C8. Token validity window: a token issued for user u at time t0 has subject
\* u and expires at t0 + ACCESS_TOKEN_EXPIRE_MINUTES; it verifies to u at every
\* time before its expiry and to no identity from its expiry on; a request whose
\* token does not verify is rejected and the task table is left untouched.
C8_TokenWindow ==
    [][ /\ (last' # last /\ last'.op = "login" /\ last'.kind = "Token") =>
             /\ last'.token \in tokens'
             /\ last'.token.sub = ToString(last'.user)
             /\ last'.token.exp = clock + ACCESS_TOKEN_EXPIRE_MINUTES
             /\ verify_token(last'.token, clock) = last'.user
             /\ \A t \in clock..MaxMinutes :
                  verify_token(last'.token, t) =
                      IF t < clock + ACCESS_TOKEN_EXPIRE_MINUTES THEN last'.user ELSE 0
        /\ \A tok \in tokens' :
             verify_token(tok, clock') = IF clock' < tok.exp THEN IntOf(tok.sub) ELSE 0
        /\ (last' # last /\ last'.op \in {"get_task", "create_task", "delete_task"}) =>
             IF verify_token(last'.token, clock) = 0
             THEN /\ last'.kind = "AuthenticationFailure"
                  /\ last'.rows = <<>>
                  /\ tasks' = tasks
             ELSE /\ last'.kind # "AuthenticationFailure"
                  /\ last'.user = verify_token(last'.token, clock) ]_vars

\* A token the server issued is presented at the instant it expires, the request
\* is rejected, and the task it names is still stored.
C8_Witness ==
    /\ last.op = "delete_task"
    /\ last.kind = "AuthenticationFailure"
    /\ last.token \in tokens
    /\ clock = last.token.exp
    /\ \E t \in tasks : t.id = last.task_id /\ ToString(t.user_id) = last.token.sub

----------------------------------------------------------------------------
(* Frame property of the task endpoints (checked under Spec) *)

FailureKinds == {"None", "False", "ValidationError", "NameError"}

\* C11. Failed operations leave the store unchanged: when an update returns
\* none, a delete returns false, or a create or update ends in an error, the
\* task table after the call is the table before it, row for row and field for
\* field.
C11_FailedCallsChangeNothing ==
    [][ (/\ last'.op \in {"create_task", "update_task", "delete_task"}
         /\ last'.kind \in FailureKinds)
        => tasks' = tasks ]_vars

\* An update by the owner that supplied a new status ended in an error, and the
\* stored task still has its old status.
C11_Witness ==
    /\ last.op = "update_task"
    /\ last.kind = "NameError"
    /\ last.payload.status = "completed"
    /\ \E t \in tasks :
         t.id = last.task_id /\ t.user_id = last.user /\ t.status = "pending"

====
